---- MODULE Spec2Model ----
(***************************************************************************)
(* State-machine model of the SAP Community scraper (src/script.py):       *)
(* scrape_sap_community with its checkpoint store, its incremental result  *)
(* sink and its link filter.  A URL is modelled by its path segments, the  *)
(* disk by one checkpoint file and three result files per base filename.   *)
(***************************************************************************)
EXTENDS Integers, Sequences, FiniteSets, TLC

\* ---------------------------------------------------------------- bounds
\* Largest max_pages a run is started with; the site has this many list pages.
MaxPagesBound == 2
\* Largest max_questions a run is started with.
MaxQuestionsBound == 2
\* Number of runs (first run, then restarts) one behaviour holds.
MaxRuns == 2
\* Number of operations (a navigation with its retries, an extraction, a file
\* write, a wait) that fail in one behaviour.
MaxFaults == 1
\* Largest number of question links on the list page of FilterSpec.
MaxHrefs == 4
\* The img elements of one element of a detail page are at most this many.
MaxImages == 2

\* ------------------------------------------------------- program constants
\* for attempt in range(3): list-page navigation attempts
ListAttempts == 3
\* for attempt in range(2): detail-page navigation attempts
DetailAttempts == 2
\* wait_for_timeout(10000 + (attempt * 5000)) after a blocked list page
BlockedBaseDelay == 10000
BlockedStepDelay == 5000
\* wait_for_timeout(5000) after a list navigation that raised
ErrorDelay == 5000

\* ------------------------------------------------------------------- URLs
\* A URL or href: abs says whether the text starts with "http", segs are the
\* path segments, page is the value of the ?page= query (0: no query).
Url(abs, segs, page) == [abs |-> abs, segs |-> segs, page |-> page]

\* The empty string.
NoUrl == Url(FALSE, <<>>, 0)

\* topic_url of the run: /t5/crm-q-a/qa-p/crm-questions
TopicSegs == <<"t5", "crm-q-a", "qa-p", "crm-questions">>
topic_url == Url(TRUE, TopicSegs, 0)

\* url = f"{topic_url}?page={page_num}"
ListUrl(p) == Url(TRUE, topic_url.segs, p)

\* Path segments of the hrefs a list page may carry.
T1Segs == <<"t5", "crm-q-a", "s1", "qaq-p", "1">>
T2Segs == <<"t5", "crm-q-a", "s2", "qaa-p", "2">>
TXSegs == <<"t5", "scm-q-a", "s3", "qaq-p", "3">>
ProfileSegs == <<"t5", "user", "viewprofilepage", "qa-p", "7">>
BoardSegs == <<"t5", "crm-q-a", "qa-p", "crm-questions">>
BlogSegs == <<"t5", "crm-q-a", "s4", "ba-p", "4">>

\* full = href if href.startswith('http') else 'https://community.sap.com' + href
Full(href) == IF href.abs THEN href ELSE Url(TRUE, href.segs, href.page)

\* '/user/viewprofilepage' in full
IsProfile(full) ==
    \E i \in 1..(Len(full.segs) - 1) :
        full.segs[i] = "user" /\ full.segs[i + 1] = "viewprofilepage"

\* re.search(r'/t5/.+/(?:qaq|qaa|qa)-p/', full): a segment t5, at least one
\* segment after it, then a qaq-p, qaa-p or qa-p segment followed by a slash.
ThreadPattern(full) ==
    \E i \in 1..Len(full.segs), j \in 1..Len(full.segs) :
        /\ full.segs[i] = "t5"
        /\ j > i + 1
        /\ full.segs[j] \in {"qaq-p", "qaa-p", "qa-p"}
        /\ j < Len(full.segs)

\* q_urls.append(href) for every href that is not empty
ReadHrefs(hrefs) == SelectSeq(hrefs, LAMBDA h : h # NoUrl)

RECURSIVE FilterLinks(_)
\* filtered: the normalised hrefs that are no profile link and match the
\* thread pattern, in order.
FilterLinks(hrefs) ==
    IF hrefs = <<>> THEN <<>>
    ELSE LET full == Full(Head(hrefs))
             rest == FilterLinks(Tail(hrefs))
         IN  IF IsProfile(full) THEN rest
             ELSE IF ThreadPattern(full) THEN <<full>> \o rest
             ELSE rest

\* Whether u is an element of sequence s.
InSeq(u, s) == \E i \in 1..Len(s) : s[i] = u

RECURSIVE DedupFrom(_, _)
\* The loop over filtered with the seen set: out is q_urls so far.
DedupFrom(filtered, out) ==
    IF filtered = <<>> THEN out
    ELSE IF InSeq(Head(filtered), out) THEN DedupFrom(Tail(filtered), out)
    ELSE DedupFrom(Tail(filtered), Append(out, Head(filtered)))

\* Variant: the deduplicated links in reverse order.
Dedup_Reversed(filtered) ==
    [i \in 1..Len(DedupFrom(filtered, <<>>)) |->
        DedupFrom(filtered, <<>>)[Len(DedupFrom(filtered, <<>>)) + 1 - i]]

\* Variant: the seen set dropped, every filtered link kept.
Dedup_None(filtered) == filtered

\* deduplicate while preserving order
Dedup(filtered) == DedupFrom(filtered, <<>>)

\* q_urls of a list page whose question links carry these hrefs.
ValidLinks(hrefs) == Dedup(FilterLinks(ReadHrefs(hrefs)))

\* re.sub of the unsafe characters and of runs of '-' and blanks by '_',
\* prefixed with "sap_community_".
CleanName(section_name) ==
    CASE section_name = "crm-q-a" -> "sap_community_crm_q_a"
      [] section_name = "scm-q-a" -> "sap_community_scm_q_a"
      [] section_name = "crm-questions" -> "sap_community_crm_questions"
      [] section_name = "user" -> "sap_community_user"
      [] OTHER -> "sap_community_other"

\* generate_filename_from_url: the first path segment that is not t5, qa-p
\* or ct-p, cleaned; "sap_community_data" when there is none.
generate_filename_from_url(url) ==
    LET parts == SelectSeq(url.segs, LAMBDA s : s \notin {"t5", "qa-p", "ct-p"})
    IN  IF parts # <<>> THEN CleanName(parts[1]) ELSE "sap_community_data"

\* Base filenames the run can compute: the keys of the files on disk.
Keys == {"sap_community_crm_q_a", "sap_community_scm_q_a"}

\* ------------------------------------------------------------ environment
\* The href attributes of the question links a list page can carry.
PageChoices ==
    { <<Url(FALSE, ProfileSegs, 0), Url(FALSE, BlogSegs, 0), NoUrl>>,
      <<Url(FALSE, T1Segs, 0), Url(FALSE, ProfileSegs, 0),
        Url(TRUE, T1Segs, 0), Url(FALSE, T2Segs, 0)>>,
      <<Url(FALSE, TXSegs, 0), Url(FALSE, BoardSegs, 0)>> }

\* The is_accepted flags of the answer elements (.MessageView...-answer) the
\* detail page at url carries.
AnswerElements(url) ==
    CASE url.segs = T1Segs -> <<FALSE, TRUE>>
      [] url.segs = T2Segs -> <<FALSE>>
      [] OTHER -> <<>>

\* The extraction steps of a detail page before the responses.
ExtractionSteps == {"title", "body", "tags", "system"}

\* What a download of an image can give: status 200, another status, or a
\* network exception.
DownloadOutcomes == {"ok", "status", "error"}

\* The threads a detail page can show.
ThreadSegs == {T1Segs, T2Segs, TXSegs, BoardSegs}

\* A detail page: the steps that find their element, the download outcome of
\* each img element of the question body, and of each img element of each
\* answer element.
DetailPage(elements, question_imgs, answer_imgs) ==
    [elements |-> elements, question_imgs |-> question_imgs,
     answer_imgs |-> answer_imgs]

\* The detail pages of the site: T1 carries every element, each of the others
\* lacks one.
DefaultDetail ==
    [t \in ThreadSegs |->
        CASE t = T1Segs -> DetailPage(ExtractionSteps, <<"ok">>, <<<<>>, <<"ok">>>>)
          [] t = T2Segs -> DetailPage(ExtractionSteps \ {"title"}, <<>>, <<<<>>>>)
          [] t = TXSegs -> DetailPage(ExtractionSteps \ {"tags"}, <<>>, <<>>)
          [] OTHER -> DetailPage({"title"}, <<>>, <<>>)]

\* ------------------------------------------------------------------ state
VARIABLES
    site,                       \* list page index -> hrefs of its question links
    detail,                     \* thread -> its detail page
    ckpt,                       \* base filename -> <name>_checkpoint.json
    accepted_json,              \* base filename -> <name>_accepted.json
    no_accepted_json,           \* base filename -> <name>_no_accepted.json
    excel,                      \* base filename -> <name>.xlsx (its rows)
    resume, max_pages, max_questions,   \* parameters of the run
    pc,                         \* where the run stands
    base_filename,
    last_page_from_checkpoint,
    start_page,
    page_num,
    attempt,
    q_urls,
    link,                       \* index in q_urls of the current q_url
    accepted_results,
    no_accepted_results,
    visited_count,
    stop_all,
    raised_in,                  \* where an exception left the run ("" if none)
    runNo,                      \* history: runs started so far
    navLog,                     \* history: <<"list", page, ''>> and <<"detail", page, url>>
                                \* for the first goto of a page, <<"links" or
                                \* "nolinks", page, ''>> for its valid links read
    extracted,                  \* history: records this run extracted, in order
    done_page,                  \* history: last list page this run iterated to its end
    prev,                       \* history: how the previous run ended
    ckpt_at_start,              \* history: the topic's checkpoint file when this run began
    faults,                     \* history: operations that have failed so far
    last_outcome,               \* history: how the latest operation that can fail went
    backoff,                    \* history: the delay (ms) the latest attempt at a list
                                \* page waited before the next attempt
    io_log,                     \* history: the navigations, image downloads and file
                                \* writes of the current list page or thread, each as
                                \* <<"begin", op>> when it starts and <<"end", op>>
                                \* when its await returns
    processedEver               \* history: URLs of the records any run appended

disk == <<ckpt, accepted_json, no_accepted_json, excel>>
params == <<resume, max_pages, max_questions>>
locals == <<base_filename, last_page_from_checkpoint, start_page, page_num, attempt,
            q_urls, link, accepted_results, no_accepted_results, visited_count,
            stop_all>>
history == <<runNo, navLog, extracted, done_page, prev, ckpt_at_start, faults,
             last_outcome, backoff, io_log, processedEver>>
vars == <<site, detail, disk, params, pc, locals, raised_in, history>>

\* A checkpoint file: absent, corrupt (cut short by a crash) or a JSON object.
NoCheckpoint == [state |-> "absent", last_page |-> 0, last_url |-> NoUrl]
CorruptCheckpoint == [state |-> "corrupt", last_page |-> 0, last_url |-> NoUrl]
\* Variant: the checkpoint holds the page before the current one.
Checkpoint_PreviousPage(current_page, current_url) ==
    [state |-> "ok", last_page |-> current_page - 1, last_url |-> current_url]
\* checkpoint = {'last_page': current_page, 'last_url': current_url, ...}
Checkpoint(current_page, current_url) ==
    [state |-> "ok", last_page |-> current_page, last_url |-> current_url]

\* A result file: absent, or the list it holds.
NoFile == [exists |-> FALSE, data |-> <<>>]

\* Variant: a write holds the last record alone, the delta of the flush.
File_LastOnly(data) ==
    [exists |-> TRUE,
     data |-> IF data = <<>> THEN <<>> ELSE <<data[Len(data)]>>]

File(data) == [exists |-> TRUE, data |-> data]

\* max_questions: None, or a number.
Unlimited == [limited |-> FALSE, n |-> 0]
Limit(n) == [limited |-> TRUE, n |-> n]

Running == {"page_loop", "list_nav", "discover", "thread_loop", "detail_nav",
            "extract", "flush", "checkpoint", "closing"}
Stopped == {"idle", "returned", "crashed", "raised"}

\* Variant: a file that cannot be read counts as page 1 done.
load_progress_checkpoint_One(file) ==
    IF file.state = "ok" THEN <<file.last_page, file.last_url>> ELSE <<1, NoUrl>>

\* load_progress_checkpoint: (last_page, last_url) of the file, (0, '') when
\* the file is absent or cannot be read.
load_progress_checkpoint(file) ==
    IF file.state = "ok" THEN <<file.last_page, file.last_url>> ELSE <<0, NoUrl>>

\* Variant: the checkpoint is ignored, every run starts at page 1.
StartPage_One(resume_, last_page) == 1

\* Variant: a resumed run starts at the checkpointed page itself.
StartPage_SamePage(resume_, last_page) ==
    IF resume_ /\ last_page > 0 THEN last_page ELSE 1

\* start_page = 1; if resume: start_page = last_page_from_checkpoint + 1
StartPage(resume_, last_page) == IF resume_ THEN last_page + 1 ELSE 1

\* History: how a run ended (end), the last list page it iterated to its end
\* (done), whether the quota stopped it (stop_all), and the list page it was
\* working on, its pre-fetch checkpoint taken, when it was cut (mid, else 0).
Ended(end, done, stopped, mid) ==
    [end |-> end, done |-> done, stop_all |-> stopped, mid |-> mid]
NoPrev == Ended("none", 0, FALSE, 0)

Init ==
    /\ site \in [1..MaxPagesBound -> PageChoices]
    /\ detail = DefaultDetail
    /\ ckpt = [k \in Keys |-> NoCheckpoint]
    /\ accepted_json = [k \in Keys |-> NoFile]
    /\ no_accepted_json = [k \in Keys |-> NoFile]
    /\ excel = [k \in Keys |-> NoFile]
    /\ resume = TRUE /\ max_pages = 1 /\ max_questions = Unlimited
    /\ pc = "idle"
    /\ base_filename = generate_filename_from_url(topic_url)
    /\ last_page_from_checkpoint = 0
    /\ start_page = 1
    /\ page_num = 1
    /\ attempt = 0
    /\ q_urls = <<>>
    /\ link = 1
    /\ accepted_results = <<>>
    /\ no_accepted_results = <<>>
    /\ visited_count = 0
    /\ stop_all = FALSE
    /\ raised_in = ""
    /\ runNo = 0
    /\ navLog = <<>>
    /\ extracted = <<>>
    /\ done_page = 0
    /\ prev = NoPrev
    /\ ckpt_at_start = NoCheckpoint
    /\ faults = 0
    /\ last_outcome = "none"
    /\ backoff = 0
    /\ io_log = <<>>
    /\ processedEver = {}

\* ------------------------------------------------------------- operations
\* History: the outcome of an operation is admitted (a failure while failures
\* are left, a success always), and counted. A retry of a navigation that has
\* failed belongs to the failure already counted.
Admit(outcome, retry) ==
    /\ outcome = "ok" \/ retry \/ faults < MaxFaults
    /\ faults' = IF outcome = "ok" \/ retry THEN faults ELSE faults + 1
    /\ last_outcome' = outcome

\* The q_url of the current iteration of the thread loop (with line 511's
\* normalisation).
q_url == Full(q_urls[link])

\* The steps of the detail page at url that find their element.
Elements(url) == detail[url.segs].elements

\* Variant: an entry for every img element, whatever its download gave.
extract_images_from_element_All(imgs) == [i \in 1..Len(imgs) |-> i - 1]

\* extract_images_from_element: one entry (the index i of its img element) per
\* image whose download answered with status 200, in element order; imgs are
\* the download outcomes of the element's img elements.
extract_images_from_element(imgs) ==
    SelectSeq([i \in 1..Len(imgs) |-> i - 1], LAMBDA i : imgs[i + 1] = "ok")

\* An awaited operation: it starts, and the coroutine goes on when it is over.
Awaited(op) == << <<"begin", op>>, <<"end", op>> >>

\* Variant: the downloads are started and not awaited.
DownloadEvents_NotAwaited(e, imgs) ==
    [i \in 1..Len(imgs) |-> <<"begin", <<"image", e, i - 1>>>>]

RECURSIVE DownloadEvents(_, _)
\* The loop "for i, img in enumerate(img_elements)" of
\* extract_images_from_element over element e (0: the question body, j: answer
\* j): session.get and response.read() are awaited for one image before the
\* next image is looked at, whatever the download gives.
DownloadEvents(e, imgs) ==
    IF imgs = <<>> THEN <<>>
    ELSE DownloadEvents(e, SubSeq(imgs, 1, Len(imgs) - 1))
            \o Awaited(<<"image", e, Len(imgs) - 1>>)

RECURSIVE AnswerDownloads(_, _)
\* The loop over the answer elements of extract_all_responses: the images of
\* answers 1..j, one answer after the other.
AnswerDownloads(answer_imgs, j) ==
    IF j = 0 THEN <<>>
    ELSE AnswerDownloads(answer_imgs, j - 1) \o DownloadEvents(j, answer_imgs[j])

\* images_dir of the question's images: scrapped_data/images/<base filename of
\* q_url> (line 575); extract_all_responses passes none, so the answers'
\* images go to the default directory "images".
QuestionImagesDir(url) ==
    <<"scrapped_data", "images", generate_filename_from_url(url)>>
AnswerImagesDir == <<"images">>

\* local_path of the img element with index i of an element: images_dir joined
\* with safe_filename = alt[:50] + f"_{i}{file_ext}". The img elements of the
\* model carry no alt attribute (alt is then f"image_{i}") and a src without an
\* extension (file_ext is then '.jpg').
local_path(images_dir, i) == <<images_dir, <<"image", i>>, i, ".jpg">>

\* One thread record: url, page_number, the is_accepted flags of
\* all_responses (total_responses is their number) with the images of each,
\* and title, question, question_images, tags and system, each empty when its
\* step found no element.
ThreadRecord(url, page_number, all_responses) ==
    [url |-> url, page_number |-> page_number, all_responses |-> all_responses,
     response_images |->
        [j \in 1..Len(all_responses) |->
            extract_images_from_element(detail[url.segs].answer_imgs[j])],
     title |-> IF "title" \in Elements(url) THEN "title" ELSE "",
     question |-> IF "body" \in Elements(url) THEN "question" ELSE "",
     question_images |->
        IF "body" \in Elements(url)
        THEN extract_images_from_element(detail[url.segs].question_imgs)
        ELSE <<>>,
     tags |-> IF "tags" \in Elements(url) THEN <<"tag">> ELSE <<>>,
     system |-> IF "system" \in Elements(url) THEN "system" ELSE ""]

\* accepted_responses = [r for r in all_responses if r['is_accepted']]
AcceptedResponses(all_responses) == SelectSeq(all_responses, LAMBDA a : a)

\* Variant: only the first response decides the collection.
Classify_FirstResponse(all_responses) ==
    all_responses # <<>> /\ all_responses[1]

\* if accepted_responses: the record goes to accepted_results
Classify(all_responses) == AcceptedResponses(all_responses) # <<>>

\* Variant: the record is put in front of the collection.
AppendRecord_Front(results, result_entry) == <<result_entry>> \o results

\* accepted_results.append(result_entry), no_accepted_results.append(result_entry)
AppendRecord(results, result_entry) == Append(results, result_entry)

\* Variant: no quota stops the run.
QuotaReached_Never(mq, count) == FALSE

\* Variant: the quota compared with > in place of >=.
QuotaReached_Off(mq, count) == mq.limited /\ count > mq.n

\* max_questions is not None and visited_count >= max_questions
QuotaReached(mq, count) == mq.limited /\ count >= mq.n

\* Variant: an empty list page does not end the run.
EndOfPagination_Never(urls) == FALSE

\* if len(q_urls) == 0: break
EndOfPagination(urls) == Len(urls) = 0

\* Variant: a failed list navigation is always tried again.
ListRetry_Always(a) == TRUE

\* Variant: a list page gets two attempts.
ListRetry_Twice(a) == a < ListAttempts - 2

\* attempt < 2: another attempt at the list page follows
ListRetry(a) == a < ListAttempts - 1

\* The wait that follows a failed attempt at a list page: after a blocked
\* page 10000 + attempt * 5000 ms, after an exception 5000 ms, each only if
\* attempt < 2; none after a success.
ListBackoff(outcome, a) ==
    CASE outcome = "blocked" /\ a < ListAttempts - 1 ->
           BlockedBaseDelay + a * BlockedStepDelay
      [] outcome = "error" /\ a < ListAttempts - 1 -> ErrorDelay
      [] OTHER -> 0

\* Variant: a detail page gets one attempt.
DetailRetry_Never(a) == FALSE

\* range(2): another attempt at the detail page follows
DetailRetry(a) == a < DetailAttempts - 1

\* save_progress_checkpoint: the checkpoint file of base after the call. The
\* open may fail (file as it was) and the dump may fail (file cut short).
save_progress_checkpoint(files, base, current_page, current_url, outcome) ==
    CASE outcome = "ok" ->
           [files EXCEPT ![base] = Checkpoint(current_page, current_url)]
      [] outcome = "write_failed" -> [files EXCEPT ![base] = CorruptCheckpoint]
      [] OTHER -> files

\* One row of the Excel sheet.
Row(r, has_accepted_answer) ==
    [url |-> r.url, page_number |-> r.page_number,
     total_responses |-> Len(r.all_responses),
     has_accepted_answer |-> has_accepted_answer]

RECURSIVE AcceptedRows(_)
\* for a in accepted_list: excel_rows.append(row)
AcceptedRows(accepted_list) ==
    IF accepted_list = <<>> THEN <<>>
    ELSE <<Row(Head(accepted_list), "Yes")>> \o AcceptedRows(Tail(accepted_list))

\* Variant: a row for every record of no_accepted_list, the url check dropped.
NoAcceptedRows_NoSkip(no_accepted_list, excel_rows) ==
    excel_rows \o [i \in 1..Len(no_accepted_list) |-> Row(no_accepted_list[i], "No")]

RECURSIVE NoAcceptedRows(_, _)
\* for n in no_accepted_list: a row, unless excel_rows has one with its url
NoAcceptedRows(no_accepted_list, excel_rows) ==
    IF no_accepted_list = <<>> THEN excel_rows
    ELSE LET n == Head(no_accepted_list)
         IN  IF \E i \in 1..Len(excel_rows) : excel_rows[i].url = n.url
             THEN NoAcceptedRows(Tail(no_accepted_list), excel_rows)
             ELSE NoAcceptedRows(Tail(no_accepted_list),
                                 Append(excel_rows, Row(n, "No")))

\* excel_rows of _save_results_incrementally
ExcelRows(accepted_list, no_accepted_list) ==
    NoAcceptedRows(no_accepted_list, AcceptedRows(accepted_list))

\* The locals of a run that is over.
ResetLocals ==
    /\ base_filename' = generate_filename_from_url(topic_url)
    /\ last_page_from_checkpoint' = 0
    /\ start_page' = 1
    /\ page_num' = 1
    /\ attempt' = 0
    /\ q_urls' = <<>>
    /\ link' = 1
    /\ accepted_results' = <<>>
    /\ no_accepted_results' = <<>>
    /\ visited_count' = 0
    /\ stop_all' = FALSE

\* The next iteration of "for q_url in q_urls".
NextLink ==
    /\ link' = link + 1
    /\ attempt' = 0
    /\ pc' = "thread_loop"

\* scrape_sap_community up to the page loop: the collections, the base
\* filename, the start page, the browser.
StartRun(r, mp, mq) ==
    /\ pc \in Stopped
    /\ runNo < MaxRuns
    /\ resume' = r /\ max_pages' = mp /\ max_questions' = mq
    /\ accepted_results' = <<>>
    /\ no_accepted_results' = <<>>
    /\ base_filename' = generate_filename_from_url(topic_url)
    /\ LET loaded == load_progress_checkpoint(ckpt[base_filename'])
       IN  /\ last_page_from_checkpoint' = IF r THEN loaded[1] ELSE 0
           /\ start_page' = StartPage(r, loaded[1])
    /\ page_num' = start_page'
    /\ attempt' = 0
    /\ q_urls' = <<>>
    /\ link' = 1
    /\ visited_count' = 0
    /\ stop_all' = FALSE
    /\ pc' = "page_loop"
    /\ raised_in' = ""
    /\ runNo' = runNo + 1
    /\ navLog' = <<>>
    /\ extracted' = <<>>
    /\ done_page' = start_page' - 1
    /\ ckpt_at_start' = ckpt[generate_filename_from_url(topic_url)]
    /\ last_outcome' = "none"
    /\ backoff' = 0
    /\ io_log' = <<>>
    /\ UNCHANGED <<site, detail, disk, prev, faults, processedEver>>

\* range(start_page, max_pages + 1) is exhausted: on to browser.close().
PageLoopEnd ==
    /\ pc = "page_loop"
    /\ page_num > max_pages
    /\ pc' = "closing"
    /\ UNCHANGED <<site, detail, backoff, io_log, last_outcome, disk, params, locals, raised_in, history>>

\* The head of the page loop body: the checkpoint before the fetch.
PageBegin(outcome) ==
    /\ pc = "page_loop"
    /\ page_num <= max_pages
    /\ ckpt' = save_progress_checkpoint(ckpt, base_filename, page_num,
                                        ListUrl(page_num), outcome)
    /\ Admit(outcome, FALSE)
    /\ attempt' = 0
    /\ pc' = "list_nav"
    /\ io_log' = <<>>
    /\ UNCHANGED <<site, detail, backoff, accepted_json, no_accepted_json, excel, params,
                   base_filename, last_page_from_checkpoint, start_page, page_num,
                   q_urls, link, accepted_results, no_accepted_results,
                   visited_count, stop_all, raised_in, runNo, navLog, extracted,
                   done_page, prev, ckpt_at_start, processedEver>>

\* One attempt of "for attempt in range(3)": page.goto(url) and the title check.
ListGoto(outcome) ==
    /\ pc = "list_nav"
    /\ attempt \in 0..(ListAttempts - 1)
    /\ navLog' = IF attempt = 0 THEN Append(navLog, <<"list", page_num, NoUrl>>)
                 ELSE navLog
    /\ Admit(outcome, attempt > 0)
    /\ backoff' = ListBackoff(outcome, attempt)
    /\ io_log' = io_log \o Awaited(<<"goto">>)
    /\ IF outcome = "ok"
       THEN /\ pc' = "discover"
            /\ UNCHANGED <<attempt, page_num>>
       ELSE IF ListRetry(attempt)
            THEN /\ attempt' = attempt + 1
                 /\ UNCHANGED <<pc, page_num>>
            ELSE /\ pc' = "page_loop"
                 /\ page_num' = page_num + 1
                 /\ attempt' = 0
    /\ UNCHANGED <<site, detail, disk, params, base_filename, last_page_from_checkpoint,
                   start_page, q_urls, link, accepted_results, no_accepted_results,
                   visited_count, stop_all, raised_in, runNo, extracted, done_page,
                   prev, ckpt_at_start, processedEver>>

\* The question links of the loaded page, filtered and deduplicated; no valid
\* link ends the pagination.
Discover ==
    /\ pc = "discover"
    /\ q_urls' = ValidLinks(site[page_num])
    /\ link' = 1
    /\ pc' = IF EndOfPagination(q_urls') THEN "closing" ELSE "thread_loop"
    /\ navLog' = Append(navLog, <<IF Len(q_urls') = 0 THEN "nolinks" ELSE "links",
                                  page_num, NoUrl>>)
    /\ UNCHANGED <<site, detail, backoff, io_log, last_outcome, disk, params, base_filename, last_page_from_checkpoint,
                   start_page, page_num, attempt, accepted_results,
                   no_accepted_results, visited_count, stop_all, raised_in,
                   runNo, extracted, done_page, prev, ckpt_at_start, faults,
                   processedEver>>

\* The head of "for q_url in q_urls": the loop ends, the quota stops the run,
\* or the thread is visited.
ThreadLoop ==
    /\ pc = "thread_loop"
    /\ IF link > Len(q_urls)
       THEN /\ pc' = "page_loop"
            /\ page_num' = page_num + 1
            /\ done_page' = page_num
            /\ UNCHANGED <<stop_all>>
       ELSE IF QuotaReached(max_questions, visited_count)
            THEN /\ stop_all' = TRUE
                 /\ pc' = "closing"
                 /\ UNCHANGED <<page_num, done_page>>
            ELSE /\ pc' = "detail_nav"
                 /\ UNCHANGED <<page_num, done_page, stop_all>>
    /\ attempt' = 0
    /\ io_log' = <<>>
    /\ UNCHANGED <<site, detail, backoff, last_outcome, disk, params, base_filename, last_page_from_checkpoint,
                   start_page, q_urls, link, accepted_results, no_accepted_results,
                   visited_count, raised_in, runNo, navLog, extracted, prev,
                   ckpt_at_start, faults, processedEver>>

\* One attempt of "for attempt in range(2)": page.goto(q_url).
DetailGoto(outcome) ==
    /\ pc = "detail_nav"
    /\ attempt \in 0..(DetailAttempts - 1)
    /\ navLog' = IF attempt = 0 THEN Append(navLog, <<"detail", page_num, q_url>>)
                 ELSE navLog
    /\ Admit(outcome, attempt > 0)
    /\ IF outcome = "ok"
       THEN /\ pc' = "extract"
            /\ UNCHANGED <<attempt, link>>
       ELSE IF DetailRetry(attempt)
            THEN /\ attempt' = attempt + 1
                 /\ UNCHANGED <<pc, link>>
            ELSE NextLink
    /\ io_log' = io_log \o Awaited(<<"goto">>)
    /\ UNCHANGED <<site, detail, backoff, disk, params, base_filename, last_page_from_checkpoint,
                   start_page, page_num, q_urls, accepted_results,
                   no_accepted_results, visited_count, stop_all, raised_in, runNo,
                   extracted, done_page, prev, ckpt_at_start, processedEver>>

\* The try block of a thread fails before a record is appended: a call of the
\* title, body, tags or system step raises; body_found says whether the
\* question body was read before (line 574 then rebinds base_filename).
ExtractRaises(body_found) ==
    /\ pc = "extract"
    /\ body_found => "body" \in Elements(q_url)
    /\ base_filename' = IF body_found THEN generate_filename_from_url(q_url)
                        ELSE base_filename
    /\ Admit("raise", FALSE)
    /\ NextLink
    /\ io_log' = IF body_found
                 THEN io_log \o DownloadEvents(0, detail[q_url.segs].question_imgs)
                 ELSE io_log
    /\ UNCHANGED <<site, detail, backoff, disk, params, last_page_from_checkpoint, start_page,
                   page_num, q_urls, accepted_results, no_accepted_results,
                   visited_count, stop_all, raised_in, runNo, navLog, extracted,
                   done_page, prev, ckpt_at_start, processedEver>>

\* Title, body, tags, system and responses are extracted and the record is
\* appended to accepted_results or to no_accepted_results.
Extract(body_found) ==
    /\ pc = "extract"
    /\ body_found = ("body" \in Elements(q_url))
    /\ base_filename' = IF body_found THEN generate_filename_from_url(q_url)
                        ELSE base_filename
    /\ LET all_responses == AnswerElements(q_url)
           result_entry == ThreadRecord(q_url, page_num, all_responses)
       IN  /\ IF Classify(all_responses)
              THEN /\ accepted_results' = AppendRecord(accepted_results, result_entry)
                   /\ UNCHANGED no_accepted_results
              ELSE /\ no_accepted_results' = AppendRecord(no_accepted_results, result_entry)
                   /\ UNCHANGED accepted_results
           /\ extracted' = Append(extracted, result_entry)
    /\ visited_count' = visited_count + 1
    /\ processedEver' = processedEver \cup {q_url}
    /\ pc' = "flush"
    /\ last_outcome' = "ok"
    /\ io_log' = io_log
                    \o (IF body_found
                        THEN DownloadEvents(0, detail[q_url.segs].question_imgs)
                        ELSE <<>>)
                    \o AnswerDownloads(detail[q_url.segs].answer_imgs,
                                       Len(AnswerElements(q_url)))
    /\ UNCHANGED <<site, detail, backoff, disk, params, last_page_from_checkpoint, start_page,
                   page_num, attempt, q_urls, link, stop_all, raised_in, runNo,
                   navLog, done_page, prev, ckpt_at_start, faults>>

\* _save_results_incrementally(accepted_results, no_accepted_results): the two
\* JSON files, then the Excel file; a write that fails ends the call.
Flush(outcome) ==
    /\ pc = "flush"
    /\ accepted_json' =
         IF outcome \in {"ok", "fail_no_accepted", "fail_excel"}
         THEN [accepted_json EXCEPT ![base_filename] = File(accepted_results)]
         ELSE accepted_json
    /\ no_accepted_json' =
         IF outcome \in {"ok", "fail_excel"}
         THEN [no_accepted_json EXCEPT ![base_filename] = File(no_accepted_results)]
         ELSE no_accepted_json
    /\ excel' =
         IF outcome = "ok"
         THEN [excel EXCEPT ![base_filename] =
                 File(ExcelRows(accepted_results, no_accepted_results))]
         ELSE excel
    /\ Admit(outcome, FALSE)
    /\ IF outcome = "ok"
       THEN /\ pc' = "checkpoint"
            /\ UNCHANGED <<link, attempt>>
       ELSE NextLink
    /\ io_log' = io_log \o Awaited(<<"flush">>)
    /\ UNCHANGED <<site, detail, backoff, ckpt, params, base_filename, last_page_from_checkpoint,
                   start_page, page_num, q_urls, accepted_results,
                   no_accepted_results, visited_count, stop_all, raised_in, runNo,
                   navLog, extracted, done_page, prev, ckpt_at_start,
                   processedEver>>

\* save_progress_checkpoint(base_filename, page_num, q_url) after the flush,
\* then the quota check; "raise" is os.makedirs failing, which the thread's
\* except clause catches.
CheckpointThread(outcome) ==
    /\ pc = "checkpoint"
    /\ ckpt' = save_progress_checkpoint(ckpt, base_filename, page_num, q_url,
                                        outcome)
    /\ Admit(outcome, FALSE)
    /\ IF outcome # "raise" /\ QuotaReached(max_questions, visited_count)
       THEN /\ stop_all' = TRUE
            /\ pc' = "closing"
            /\ UNCHANGED <<link, attempt>>
       ELSE /\ NextLink
            /\ UNCHANGED stop_all
    /\ io_log' = IF outcome = "raise" THEN io_log ELSE io_log \o Awaited(<<"checkpoint">>)
    /\ UNCHANGED <<site, detail, backoff, accepted_json, no_accepted_json, excel, params,
                   base_filename, last_page_from_checkpoint, start_page, page_num,
                   q_urls, accepted_results, no_accepted_results, visited_count,
                   raised_in, runNo, navLog, extracted, done_page, prev,
                   ckpt_at_start, processedEver>>

\* await browser.close(); return accepted_results, no_accepted_results
Close ==
    /\ pc = "closing"
    /\ pc' = "returned"
    /\ prev' = Ended("returned", done_page, stop_all, 0)
    /\ q_urls' = <<>>
    /\ link' = 1
    /\ attempt' = 0
    /\ UNCHANGED <<site, detail, backoff, io_log, last_outcome, disk, params, base_filename, last_page_from_checkpoint,
                   start_page, page_num, accepted_results, no_accepted_results,
                   visited_count, stop_all, raised_in, runNo, navLog, extracted,
                   done_page, ckpt_at_start, faults, processedEver>>

\* History: the last list page whose thread loop has visited every link.
DoneNow ==
    IF pc = "thread_loop" /\ link > Len(q_urls) THEN page_num ELSE done_page

\* History: the list page the run is working on, its pre-fetch checkpoint taken
\* and its links not all visited (0: none).
MidPage ==
    IF pc \in {"page_loop", "closing"} \/ DoneNow = page_num THEN 0 ELSE page_num

\* The process is killed: nothing but the files survives.
Crash ==
    /\ pc \in Running
    /\ pc' = "crashed"
    /\ ResetLocals
    /\ navLog' = <<>>
    /\ extracted' = <<>>
    /\ prev' = Ended("crashed", DoneNow, FALSE, MidPage)
    /\ io_log' = <<>>
    /\ UNCHANGED <<site, detail, backoff, last_outcome, disk, params, raised_in, runNo, done_page, ckpt_at_start,
                   faults, processedEver>>

\* An exception leaves scrape_sap_community from where the run stands.
Raise(where) ==
    /\ pc' = "raised"
    /\ raised_in' = where
    /\ ResetLocals
    /\ navLog' = <<>>
    /\ extracted' = <<>>
    /\ prev' = Ended("raised", DoneNow, FALSE, MidPage)
    /\ Admit("raise", attempt > 0)
    /\ io_log' = <<>>
    /\ UNCHANGED <<site, detail, backoff, disk, params, runNo, done_page, ckpt_at_start,
                   processedEver>>

\* The browser launch fails.
SetupRaises ==
    /\ pc = "page_loop"
    /\ page_num = start_page
    /\ Raise("setup")

\* A call of the page loop body outside every try block fails: os.makedirs in
\* save_progress_checkpoint, a wait_for_timeout (before the fetch, in the
\* except clause of a failed attempt, before the link query), the link query
\* or get_attribute("href").
PageBodyRaises ==
    /\ \/ pc = "page_loop" /\ page_num <= max_pages
       \/ pc \in {"list_nav", "discover"}
    /\ Raise("page_body")

\* The wait_for_timeout(1000) in the except clause of a failed detail
\* navigation fails.
ThreadBodyRaises ==
    /\ pc = "detail_nav"
    /\ attempt > 0
    /\ Raise("thread_body")

\* browser.close() fails.
TeardownRaises ==
    /\ pc = "closing"
    /\ Raise("teardown")

\* ------------------------------------------------------------ specification
QuotaChoices == {Unlimited} \cup {Limit(n) : n \in 0..MaxQuestionsBound}
CheckpointOutcomes == {"ok", "open_failed", "write_failed"}
GotoOutcomes == {"ok", "error"}
ListGotoOutcomes == GotoOutcomes \cup {"blocked"}
FlushOutcomes == {"ok", "fail_accepted", "fail_no_accepted", "fail_excel"}

\* The steps of a run whose rendering client and file system directories work.
RunStep ==
    \/ \E r \in BOOLEAN, mp \in 1..MaxPagesBound, mq \in QuotaChoices :
          StartRun(r, mp, mq)
    \/ PageLoopEnd
    \/ \E o \in CheckpointOutcomes : PageBegin(o)
    \/ \E o \in ListGotoOutcomes : ListGoto(o)
    \/ Discover
    \/ ThreadLoop
    \/ \E o \in GotoOutcomes : DetailGoto(o)
    \/ \E b \in BOOLEAN : ExtractRaises(b)
    \/ \E b \in BOOLEAN : Extract(b)
    \/ \E o \in FlushOutcomes : Flush(o)
    \/ \E o \in CheckpointOutcomes \cup {"raise"} : CheckpointThread(o)
    \/ Close

Next ==
    \/ RunStep
    \/ Crash
    \/ SetupRaises
    \/ PageBodyRaises
    \/ ThreadBodyRaises
    \/ TeardownRaises

Spec == Init /\ [][Next]_vars

\* Every started run is scheduled until it returns: nothing kills the process
\* and no call outside the try blocks fails.
LiveSpec == Init /\ [][RunStep]_vars /\ WF_vars(RunStep)

\* One run without resume over one list page that carries any sequence of at
\* most MaxHrefs hrefs, with no failure: the state after
\* StartRun(FALSE, 1, Unlimited) on an empty disk, then the steps of the run.
HrefChoices ==
    { Url(FALSE, T1Segs, 0), Url(TRUE, T1Segs, 0), Url(FALSE, T2Segs, 0),
      Url(FALSE, ProfileSegs, 0), Url(FALSE, BlogSegs, 0),
      Url(FALSE, BoardSegs, 0), NoUrl }

FilterInit ==
    /\ \E n \in 0..MaxHrefs : \E hrefs \in [1..n -> HrefChoices] :
          site = [p \in 1..MaxPagesBound |-> IF p = 1 THEN hrefs ELSE <<>>]
    /\ detail = DefaultDetail
    /\ ckpt = [k \in Keys |-> NoCheckpoint]
    /\ accepted_json = [k \in Keys |-> NoFile]
    /\ no_accepted_json = [k \in Keys |-> NoFile]
    /\ excel = [k \in Keys |-> NoFile]
    /\ resume = FALSE /\ max_pages = 1 /\ max_questions = Unlimited
    /\ pc = "page_loop"
    /\ base_filename = generate_filename_from_url(topic_url)
    /\ last_page_from_checkpoint = 0
    /\ start_page = 1
    /\ page_num = 1
    /\ attempt = 0
    /\ q_urls = <<>>
    /\ link = 1
    /\ accepted_results = <<>>
    /\ no_accepted_results = <<>>
    /\ visited_count = 0
    /\ stop_all = FALSE
    /\ raised_in = ""
    /\ runNo = 1
    /\ navLog = <<>>
    /\ extracted = <<>>
    /\ done_page = 0
    /\ prev = NoPrev
    /\ ckpt_at_start = NoCheckpoint
    /\ faults = 0
    /\ last_outcome = "none"
    /\ backoff = 0
    /\ io_log = <<>>
    /\ processedEver = {}

FilterNext ==
    \/ PageLoopEnd
    \/ PageBegin("ok")
    \/ ListGoto("ok")
    \/ Discover
    \/ ThreadLoop
    \/ DetailGoto("ok")
    \/ \E b \in BOOLEAN : Extract(b)
    \/ Flush("ok")
    \/ CheckpointThread("ok")
    \/ Close

FilterSpec == FilterInit /\ [][FilterNext]_vars

\* The download outcomes of the img elements of one element.
ImageChoices ==
    UNION { [1..n -> DownloadOutcomes] : n \in 0..MaxImages }

\* One run without resume over one list page that links thread T1, whose
\* question body and two answers carry img elements with any download
\* outcomes; nothing else fails.
ImageInit ==
    /\ site = [p \in 1..MaxPagesBound |->
                 IF p = 1 THEN <<Url(FALSE, T1Segs, 0)>> ELSE <<>>]
    /\ \E q \in ImageChoices, a1 \in ImageChoices, a2 \in ImageChoices :
          detail = [DefaultDetail EXCEPT
                      ![T1Segs] = DetailPage(ExtractionSteps, q, <<a1, a2>>)]
    /\ ckpt = [k \in Keys |-> NoCheckpoint]
    /\ accepted_json = [k \in Keys |-> NoFile]
    /\ no_accepted_json = [k \in Keys |-> NoFile]
    /\ excel = [k \in Keys |-> NoFile]
    /\ resume = FALSE /\ max_pages = 1 /\ max_questions = Unlimited
    /\ pc = "page_loop"
    /\ base_filename = generate_filename_from_url(topic_url)
    /\ last_page_from_checkpoint = 0
    /\ start_page = 1
    /\ page_num = 1
    /\ attempt = 0
    /\ q_urls = <<>>
    /\ link = 1
    /\ accepted_results = <<>>
    /\ no_accepted_results = <<>>
    /\ visited_count = 0
    /\ stop_all = FALSE
    /\ raised_in = ""
    /\ runNo = 1
    /\ navLog = <<>>
    /\ extracted = <<>>
    /\ done_page = 0
    /\ prev = NoPrev
    /\ ckpt_at_start = NoCheckpoint
    /\ faults = 0
    /\ last_outcome = "none"
    /\ backoff = 0
    /\ io_log = <<>>
    /\ processedEver = {}

ImageSpec == ImageInit /\ [][FilterNext]_vars

\* ------------------------------------------------------------------ claims
\* The list pages this run has navigated to, in order.
ListPagesNavigated ==
    [i \in 1..Len(SelectSeq(navLog, LAMBDA e : e[1] = "list")) |->
        SelectSeq(navLog, LAMBDA e : e[1] = "list")[i][2]]

\* The detail pages this run has navigated to, in order.
DetailNavigated == SelectSeq(navLog, LAMBDA e : e[1] = "detail")

\* The URLs of the detail pages of list page p this run has navigated to.
DetailUrlsOf(p) ==
    [i \in 1..Len(SelectSeq(DetailNavigated, LAMBDA e : e[2] = p)) |->
        SelectSeq(DetailNavigated, LAMBDA e : e[2] = p)[i][3]]

\* The number of records the run has collected.
Collected == Len(accepted_results) + Len(no_accepted_results)

\* The first list page of the site with no valid thread link, the end of the
\* pagination (MaxPagesBound + 1: every page has one).
EndPage ==
    IF \E p \in 1..MaxPagesBound : ValidLinks(site[p]) = <<>>
    THEN CHOOSE p \in 1..MaxPagesBound :
            /\ ValidLinks(site[p]) = <<>>
            /\ \A q \in 1..(p - 1) : ValidLinks(site[q]) # <<>>
    ELSE MaxPagesBound + 1

\* C1 (as claimed): a run with resume=true that follows a killed run starts at
\* p + 1, p the last list page the killed run iterated to its end; so a run
\* killed while it worked on page q (its pre-fetch checkpoint written) is
\* resumed at q. No operation has failed.
C1_ResumeAfterLastCompletedPage ==
    (pc \in Running /\ resume /\ prev.end = "crashed" /\ faults = 0)
        => start_page = prev.done + 1

\* C2 (as claimed): when a run was killed or stopped by the quota and a run
\* with resume=true and no quota, with max_pages reaching the end of the
\* pagination, has then finished its loops, no operation having failed, every
\* valid thread link of every list page before the end of the pagination has
\* been processed by one of the runs.
C2_NoThreadDropped ==
    ( /\ pc = "closing"
      /\ resume
      /\ ~max_questions.limited
      /\ faults = 0
      /\ prev.end = "crashed" \/ (prev.end = "returned" /\ prev.stop_all)
      /\ max_pages >= EndPage \/ max_pages = MaxPagesBound )
    => \A p \in 1..MaxPagesBound :
          p < EndPage =>
            \A i \in 1..Len(ValidLinks(site[p])) :
                ValidLinks(site[p])[i] \in processedEver

\* C3 (as claimed): a record that a flush has written to an accepted or
\* no_accepted JSON file stays in that file in every later state, across a
\* kill and a run with resume=true included. No operation has failed.
C3_FlushedRecordsPersist ==
    [][faults' = 0 =>
         \A k \in Keys :
            /\ \A i \in 1..Len(accepted_json[k].data) :
                  InSeq(accepted_json[k].data[i], accepted_json'[k].data)
            /\ \A i \in 1..Len(no_accepted_json[k].data) :
                  InSeq(no_accepted_json[k].data[i], no_accepted_json'[k].data)]_vars

\* C4: with resume=true and a checkpoint file holding page index n, the first
\* list page the run navigates to is n + 1 and it navigates to no list page
\* <= n; with resume=false the first list page it navigates to is 1 whatever
\* the checkpoint holds.
C4_ResumeStartsAfterCheckpoint ==
    pc \in Running \cup {"returned"} =>
        IF resume
        THEN ckpt_at_start.state = "ok" =>
               /\ \A i \in 1..Len(ListPagesNavigated) :
                     ListPagesNavigated[i] > ckpt_at_start.last_page
               /\ ListPagesNavigated # <<>> =>
                     ListPagesNavigated[1] = ckpt_at_start.last_page + 1
        ELSE ListPagesNavigated # <<>> => ListPagesNavigated[1] = 1

\* C4 witness: a run resumed from a checkpoint holding page 1 has navigated to
\* list page 2 first.
C4_Witness ==
    /\ pc \in Running
    /\ resume
    /\ ckpt_at_start.state = "ok"
    /\ ckpt_at_start.last_page = 1
    /\ ListPagesNavigated # <<>>
    /\ ListPagesNavigated[1] = 2

\* Whether record r has an answer with is_accepted true.
HasAcceptedAnswer(r) ==
    \E i \in 1..Len(r.all_responses) : r.all_responses[i]

\* C5: every thread whose extraction completed is in exactly one collection:
\* accepted_results holds, in order, exactly the extracted records with an
\* accepted answer, no_accepted_results exactly the others.
C5_ClassificationPartition ==
    /\ accepted_results = SelectSeq(extracted, HasAcceptedAnswer)
    /\ no_accepted_results =
          SelectSeq(extracted, LAMBDA r : ~HasAcceptedAnswer(r))

\* C5 witness: a run has extracted a thread with an accepted answer and one
\* without.
C5_Witness ==
    /\ pc \in Running
    /\ accepted_results # <<>>
    /\ no_accepted_results # <<>>

\* The run has reached the end of the pagination: max_pages exhausted, or a
\* loaded list page without a valid link.
PaginationEnded ==
    \/ page_num > max_pages
    \/ navLog # <<>> /\ navLog[Len(navLog)][1] = "nolinks"

\* C6 (as claimed): a returned run with max_questions = N has navigated to
\* exactly N detail pages, or to fewer if the pagination ended first.
C6_VisitsExactlyN ==
    (pc = "returned" /\ max_questions.limited) =>
        \/ Len(DetailNavigated) = max_questions.n
        \/ Len(DetailNavigated) < max_questions.n /\ PaginationEnded

\* C6 (amended): with max_questions = N >= 0 a run never collects more than N
\* records, and a returned run has collected exactly N, or fewer only if the
\* pagination ended first.
C6_CollectsExactlyN ==
    (pc \in Running \cup {"returned"} /\ max_questions.limited) =>
        /\ Collected <= max_questions.n
        /\ pc = "returned" =>
              \/ Collected = max_questions.n
              \/ Collected < max_questions.n /\ PaginationEnded

\* C6 witness: a run with max_questions = 1 has returned with one record after
\* navigating to two detail pages.
C6_Witness ==
    /\ pc = "returned"
    /\ max_questions = Limit(1)
    /\ Collected = 1
    /\ Len(DetailNavigated) = 2

\* C7: after a loaded list page has yielded no valid thread link, the run
\* navigates to no further list page and to no detail page.
C7_ZeroLinksEndsRun ==
    \A i \in 1..Len(navLog) : navLog[i][1] = "nolinks" => i = Len(navLog)

\* C7 witness: a run has returned after a list page without a valid link,
\* max_pages not reached.
C7_Witness ==
    /\ pc = "returned"
    /\ navLog # <<>>
    /\ navLog[Len(navLog)] = <<"nolinks", 1, NoUrl>>
    /\ max_pages > 1

\* Whether href h is a valid thread link: not empty, no profile link, and
\* matching the thread pattern.
IsValidThreadLink(h) ==
    h # NoUrl /\ ~IsProfile(Full(h)) /\ ThreadPattern(Full(h))

\* The index of the first href of hrefs that normalises to u.
FirstAt(u, hrefs) ==
    CHOOSE j \in 1..Len(hrefs) :
        /\ Full(hrefs[j]) = u
        /\ \A k \in 1..(j - 1) : Full(hrefs[k]) # u

\* The number of links of the current list page whose navigation has begun.
LinksBegun ==
    IF pc = "thread_loop" \/ (pc = "detail_nav" /\ attempt = 0) THEN link - 1
    ELSE link

\* C8: the URLs the run visits for a list page are the distinct valid thread
\* links among the page's hrefs, normalised, each once, in the order of their
\* first occurrence; the detail pages navigated to so far are the first of
\* them, in that order.
C8_VisitsDistinctValidLinksInOrder ==
    pc \in {"thread_loop", "detail_nav", "extract", "flush", "checkpoint"} =>
        LET hrefs == site[page_num]
        IN  /\ \A i \in 1..Len(q_urls) :
                  \E j \in 1..Len(hrefs) :
                      IsValidThreadLink(hrefs[j]) /\ Full(hrefs[j]) = q_urls[i]
            /\ \A j \in 1..Len(hrefs) :
                  IsValidThreadLink(hrefs[j]) => InSeq(Full(hrefs[j]), q_urls)
            /\ \A i, k \in 1..Len(q_urls) :
                  i < k => /\ q_urls[i] # q_urls[k]
                           /\ FirstAt(q_urls[i], hrefs) < FirstAt(q_urls[k], hrefs)
            /\ DetailUrlsOf(page_num) = SubSeq(q_urls, 1, LinksBegun)

\* C8 witness: a list page with three thread links, one a duplicate, and a
\* profile link; the thread loop has ended after two visits.
C8_Witness ==
    /\ pc = "thread_loop"
    /\ site[page_num] = <<Url(FALSE, T1Segs, 0), Url(FALSE, ProfileSegs, 0),
                          Url(TRUE, T1Segs, 0), Url(FALSE, T2Segs, 0)>>
    /\ link > Len(q_urls)
    /\ DetailUrlsOf(page_num) = <<Url(TRUE, T1Segs, 0), Url(TRUE, T2Segs, 0)>>

\* C9: whatever navigations, blocked pages and extractions fail, a started run
\* returns, and it returns the records it has extracted.
C9_RunReturns ==
    (pc \in Running) ~>
        (pc = "returned" /\ C5_ClassificationPartition
                         /\ Collected = Len(extracted))

\* C9 witness: a run whose only list page failed three times has returned two
\* empty collections.
C9_Witness ==
    /\ pc = "returned"
    /\ ListPagesNavigated = <<1>>
    /\ max_pages = 1
    /\ faults > 0
    /\ Len(navLog) = 1
    /\ accepted_results = <<>>
    /\ no_accepted_results = <<>>

\* C10 (as claimed): no failure inside the page loop body or the thread loop
\* body leaves the run; only the browser's launch and close do.
C10_NoFailureLeavesTheLoops ==
    pc = "raised" => raised_in \in {"setup", "teardown"}

\* C11 (as claimed): whichever single extraction step of a loaded detail page
\* fails, by raising or by finding nothing, the extraction ends with a record
\* of the thread appended to one collection, each field whose step found
\* nothing being empty.
C11_FailedStepKeepsRecord ==
    [][(pc = "extract" /\ pc' \in Running) =>
          /\ Len(extracted') = Len(extracted) + 1
          /\ Collected' = Collected + 1
          /\ LET r == extracted'[Len(extracted')]
             IN  /\ r.url = q_url
                 /\ (r.title = "") = ("title" \notin Elements(q_url))
                 /\ (r.question = "") = ("body" \notin Elements(q_url))
                 /\ (r.tags = <<>>) = ("tags" \notin Elements(q_url))
                 /\ (r.system = "") = ("system" \notin Elements(q_url))]_vars

\* C12: a list page gets at most 3 navigation attempts; an attempt that
\* succeeds unblocked is the last one and leads to the link discovery; one that
\* raises or is blocked is followed by another unless it was the third; after
\* the third failure the page is skipped: no thread of it is visited, and the
\* run goes on with the next page index, neither stopped nor ended.
C12_ListPageAttempts ==
    [][(pc = "list_nav" /\ pc' \in Running) =>
          /\ attempt \in 0..2
          /\ IF last_outcome' = "ok"
             THEN pc' = "discover" /\ page_num' = page_num
             ELSE /\ last_outcome' \in {"error", "blocked"}
                  /\ IF attempt < 2
                     THEN /\ pc' = "list_nav"
                          /\ attempt' = attempt + 1
                          /\ page_num' = page_num
                     ELSE /\ pc' = "page_loop"
                          /\ page_num' = page_num + 1
                          /\ DetailUrlsOf(page_num)' = <<>>
                          /\ UNCHANGED <<stop_all, accepted_results,
                                         no_accepted_results, q_urls>>]_vars

\* C12 witness: list page 1 has failed three times, blocked the third time,
\* no thread of it was visited, and the run stands at the head of the page
\* loop with list page 2 to come.
C12_Witness ==
    /\ pc = "page_loop"
    /\ page_num = 2
    /\ max_pages = 2
    /\ ListPagesNavigated = <<1>>
    /\ Len(navLog) = 1
    /\ last_outcome = "blocked"
    /\ ~stop_all

\* C13: a detail page gets at most 2 navigation attempts; a failed first
\* attempt is followed by the second; after the second failure the thread is
\* skipped: no record is appended, no file is written (no flush, no
\* checkpoint), visited_count stays, and the thread loop goes on with the next
\* link of the same page.
C13_DetailPageAttempts ==
    [][(pc = "detail_nav" /\ pc' \in Running) =>
          /\ attempt \in 0..1
          /\ IF last_outcome' = "ok"
             THEN pc' = "extract" /\ link' = link
             ELSE /\ last_outcome' = "error"
                  /\ IF attempt < 1
                     THEN /\ pc' = "detail_nav"
                          /\ attempt' = attempt + 1
                          /\ link' = link
                     ELSE /\ pc' = "thread_loop"
                          /\ link' = link + 1
                          /\ UNCHANGED <<page_num, q_urls, accepted_results,
                                         no_accepted_results, extracted,
                                         visited_count, stop_all, ckpt,
                                         accepted_json, no_accepted_json,
                                         excel>>]_vars

\* C13 witness: the first thread of a list page with two links has just been
\* skipped after two failed navigations; nothing was collected or written for
\* it and the thread loop stands at the second link.
C13_Witness ==
    /\ pc = "thread_loop"
    /\ link = 2
    /\ Len(q_urls) = 2
    /\ last_outcome = "error"
    /\ Len(DetailUrlsOf(page_num)) = 1
    /\ Collected = 0
    /\ visited_count = 0
    /\ \A k \in Keys : ~accepted_json[k].exists /\ ~no_accepted_json[k].exists

\* C14: within a run the list pages are navigated in strictly increasing index
\* order; the detail pages of one list page are navigated in the order in
\* which their links first occur on the page; and no detail page of page k is
\* navigated after a list page with a greater index.
C14_NavigationOrder ==
    /\ \A i, k \in 1..Len(ListPagesNavigated) :
          i < k => ListPagesNavigated[i] < ListPagesNavigated[k]
    /\ \A p \in 1..MaxPagesBound :
          \A i, k \in 1..Len(DetailUrlsOf(p)) :
              i < k => FirstAt(DetailUrlsOf(p)[i], site[p])
                          < FirstAt(DetailUrlsOf(p)[k], site[p])
    /\ \A i, j \in 1..Len(navLog) :
          (i < j /\ navLog[i][1] = "list" /\ navLog[j][1] = "detail")
              => navLog[j][2] >= navLog[i][2]

\* C14 witness: a run has navigated to list pages 1 and 2 and to two detail
\* pages of each.
C14_Witness ==
    /\ ListPagesNavigated = <<1, 2>>
    /\ Len(DetailUrlsOf(1)) = 2
    /\ Len(DetailUrlsOf(2)) = 2

\* C15 (as claimed): every checkpoint write and every result-file write of a
\* run goes to the files of the key derived from the topic URL, the key read
\* at resume, whatever thread URLs the run processes: no file of another key
\* ever changes.
C15_SingleKey ==
    [][\A k \in Keys :
          k # generate_filename_from_url(topic_url) =>
              /\ ckpt'[k] = ckpt[k]
              /\ accepted_json'[k] = accepted_json[k]
              /\ no_accepted_json'[k] = no_accepted_json[k]
              /\ excel'[k] = excel[k]]_vars

\* C16: load_progress_checkpoint gives (0, '') for a checkpoint file that is
\* absent or cannot be read, and a run with resume=true that finds such a file
\* starts at list page 1: the first list page it navigates to is page 1.
C16_UnreadableCheckpointStartsAtOne ==
    (pc \in Running \cup {"returned"} /\ resume
        /\ ckpt_at_start.state \in {"absent", "corrupt"}) =>
        /\ load_progress_checkpoint(ckpt_at_start) = <<0, NoUrl>>
        /\ last_page_from_checkpoint = 0
        /\ start_page = 1
        /\ ListPagesNavigated # <<>> => ListPagesNavigated[1] = 1

\* C16 witness: a run with resume=true that found a corrupt checkpoint file
\* has navigated to list page 1.
C16_Witness ==
    /\ pc \in Running
    /\ resume
    /\ ckpt_at_start.state = "corrupt"
    /\ ListPagesNavigated = <<1>>

\* Whether list holds, in element order, exactly the img elements (by index,
\* from 0) of an element whose downloads, imgs, answered 200.
HoldsTheDownloaded(list, imgs) ==
    /\ \A n \in 1..Len(list) :
          list[n] \in 0..(Len(imgs) - 1) /\ imgs[list[n] + 1] = "ok"
    /\ \A i \in 1..Len(imgs) :
          imgs[i] = "ok" => \E n \in 1..Len(list) : list[n] = i - 1
    /\ \A n, m \in 1..Len(list) : n < m => list[n] < list[m]

\* C17: whichever image downloads of a thread fail, by status or by exception,
\* the thread's record is produced and classified, and question_images and the
\* images of each answer hold exactly the images whose download succeeded, in
\* element order.
C17_FailedImagesAreSkipped ==
    /\ pc \in {"flush", "checkpoint", "closing", "returned"} =>
          Collected = Len(DetailNavigated)
    /\ C5_ClassificationPartition
    /\ \A n \in 1..Len(extracted) :
          LET r == extracted[n]
              page == detail[r.url.segs]
          IN  /\ HoldsTheDownloaded(r.question_images, page.question_imgs)
              /\ Len(r.response_images) = Len(page.answer_imgs)
              /\ \A j \in 1..Len(page.answer_imgs) :
                    HoldsTheDownloaded(r.response_images[j], page.answer_imgs[j])

\* C17 witness: the first of two question images failed with an exception and
\* the only image of the second answer with a status; the record is in
\* accepted_results with the second question image alone and no answer image.
C17_Witness ==
    /\ detail[T1Segs].question_imgs = <<"error", "ok">>
    /\ detail[T1Segs].answer_imgs = <<<<"ok">>, <<"status">>>>
    /\ Len(accepted_results) = 1
    /\ accepted_results[1].question_images = <<1>>
    /\ accepted_results[1].response_images = <<<<0>>, <<>>>>
    /\ accepted_json[generate_filename_from_url(topic_url)].exists

\* The records of both collections, accepted_results first.
AllRecords == accepted_results \o no_accepted_results

\* C18 (as claimed): at every point of a run no two records of the accepted
\* and unaccepted collections have the same url, also when a thread link is
\* found on two list pages. No operation has failed.
C18_UrlIsUniqueKey ==
    faults = 0 =>
        \A i, j \in 1..Len(AllRecords) :
            i # j => AllRecords[i].url # AllRecords[j].url

\* The rows of the Excel file the latest flush wrote.
FlushedRows == excel[base_filename].data

\* The urls of the records of list.
UrlsOf(list) == {list[i].url : i \in 1..Len(list)}

\* C19 (as claimed): a flush leaves an Excel file with one row per record: as
\* many rows as accepted plus unaccepted records, a 'Yes' row for each accepted
\* record and a 'No' row for each unaccepted one.
C19_OneRowPerRecord ==
    pc = "checkpoint" =>
        /\ Len(FlushedRows) = Len(accepted_results) + Len(no_accepted_results)
        /\ \A i \in 1..Len(FlushedRows) :
              IF i <= Len(accepted_results)
              THEN /\ FlushedRows[i].has_accepted_answer = "Yes"
                   /\ FlushedRows[i].url = accepted_results[i].url
              ELSE /\ FlushedRows[i].has_accepted_answer = "No"
                   /\ FlushedRows[i].url =
                         no_accepted_results[i - Len(accepted_results)].url

\* C19 (amended): a flush leaves an Excel file with one 'Yes' row per accepted
\* record, in order, followed by one 'No' row per url of the unaccepted
\* records that no accepted record has: an unaccepted record whose url is
\* already in a row gets none, so there are at most as many rows as records.
C19_OneRowPerUnacceptedUrl ==
    pc = "checkpoint" =>
        /\ Len(FlushedRows) =
              Len(accepted_results)
                + Cardinality(UrlsOf(no_accepted_results) \ UrlsOf(accepted_results))
        /\ Len(FlushedRows) <= Collected
        /\ \A i \in 1..Len(FlushedRows) :
              IF i <= Len(accepted_results)
              THEN /\ FlushedRows[i].has_accepted_answer = "Yes"
                   /\ FlushedRows[i].url = accepted_results[i].url
              ELSE /\ FlushedRows[i].has_accepted_answer = "No"
                   /\ FlushedRows[i].url \in
                         UrlsOf(no_accepted_results) \ UrlsOf(accepted_results)
                   /\ \A j \in (i + 1)..Len(FlushedRows) :
                         FlushedRows[j].url # FlushedRows[i].url

\* C19 witness: a flush with two unaccepted records of the same url has left
\* one row.
C19_Witness ==
    /\ pc = "checkpoint"
    /\ accepted_results = <<>>
    /\ Len(no_accepted_results) = 2
    /\ no_accepted_results[1].url = no_accepted_results[2].url
    /\ Len(FlushedRows) = 1

\* C20 (as claimed): once the records collected have reached max_questions
\* (a quota of at least one record), the run navigates to no further detail
\* page and to no further list page, also when a flush or a checkpoint write
\* fails.
C20_QuotaStopsAtOnce ==
    [][( /\ pc \in Running /\ pc' \in Running
         /\ max_questions.limited
         /\ Collected > 0
         /\ Collected >= max_questions.n )
       => /\ Len(ListPagesNavigated') = Len(ListPagesNavigated)
          /\ Len(DetailNavigated') = Len(DetailNavigated)]_vars

\* Whether sequence s is a prefix of sequence t.
IsPrefix(s, t) == Len(s) <= Len(t) /\ SubSeq(t, 1, Len(s)) = s

\* C21: within a run accepted_results and no_accepted_results are append-only:
\* in every step of the run each collection stays the same or gains one record
\* at its end, so no record of it is changed or removed.
C21_AppendOnly ==
    [][(pc \in Running /\ pc' \in Running \cup {"returned"}) =>
          /\ \/ accepted_results' = accepted_results
             \/ /\ Len(accepted_results') = Len(accepted_results) + 1
                /\ IsPrefix(accepted_results, accepted_results')
          /\ \/ no_accepted_results' = no_accepted_results
             \/ /\ Len(no_accepted_results') = Len(no_accepted_results) + 1
                /\ IsPrefix(no_accepted_results, no_accepted_results')]_vars

\* C21 witness: a run holds two different unaccepted records, the second
\* appended after the first.
C21_Witness ==
    /\ pc \in Running
    /\ Len(no_accepted_results) = 2
    /\ no_accepted_results[1] # no_accepted_results[2]
    /\ extracted = no_accepted_results

\* The images this run has downloaded and recorded: <<n, e, i>> is the img
\* element with index i of element e (0: the question body, j: answer j) of
\* the thread of record n.
DownloadedImages ==
    UNION { LET r == extracted[n]
            IN  { <<n, 0, r.question_images[k]>> :
                     k \in 1..Len(r.question_images) }
                \cup UNION { { <<n, j, r.response_images[j][k]>> :
                                  k \in 1..Len(r.response_images[j]) } :
                             j \in 1..Len(r.response_images) }
          : n \in 1..Len(extracted) }

\* The local path the download of image img was written to.
PathOf(img) ==
    IF img[2] = 0
    THEN local_path(QuestionImagesDir(extracted[img[1]].url), img[3])
    ELSE local_path(AnswerImagesDir, img[3])

\* C22 (as claimed): no two distinct downloaded images of a run, question or
\* answer images of the same or of different threads, are written to the same
\* local path.
C22_UniqueImagePaths ==
    \A a, b \in DownloadedImages : a # b => PathOf(a) # PathOf(b)

\* Whether full has the shape of a board (list page) URL:
\* /t5/<board>/qa-p/<name>, the shape of topic_url.
IsBoardLink(full) ==
    /\ Len(full.segs) = 4
    /\ full.segs[1] = "t5"
    /\ full.segs[3] = "qa-p"

\* C23 (as claimed): no URL the run navigates to as a detail page is a
\* user-profile link or a board link of the form /t5/<board>/qa-p/<name>.
C23_NoProfileNoBoardVisited ==
    \A i \in 1..Len(DetailNavigated) :
        /\ ~IsProfile(DetailNavigated[i][3])
        /\ ~IsBoardLink(DetailNavigated[i][3])

\* Whether u is the URL of a thread's detail page (a list URL carries ?page=).
IsDetailUrl(u) == u # NoUrl /\ u.page = 0

\* Whether the JSON files of key k hold a record of url u of list page p.
FilesHold(k, u, p) ==
    \E r \in { accepted_json[k].data[i] : i \in 1..Len(accepted_json[k].data) }
             \cup { no_accepted_json[k].data[i] :
                       i \in 1..Len(no_accepted_json[k].data) } :
        r.url = u /\ r.page_number = p

\* C24: for a processed thread the record is appended first (no file
\* written), then the flush writes both full collections to the JSON files,
\* then the checkpoint {page_num, q_url} is written; a checkpoint comes to name
\* a detail URL u only by that write, and the JSON files of its key then hold
\* the full in-memory collections, the record of u included. In the first run
\* on an empty disk the files of a key whose checkpoint names u hold the
\* record of u in every state, whatever fails.
C24_CheckpointFollowsFlush ==
    /\ [][(pc \in Running /\ pc' \in Running) =>
            /\ (pc = "extract" /\ pc' = "flush") =>
                  /\ Collected' = Collected + 1
                  /\ AllRecords'[IF Classify(AnswerElements(q_url))
                                 THEN Len(accepted_results')
                                 ELSE Len(AllRecords')].url = q_url
                  /\ UNCHANGED disk
            /\ (pc = "flush" /\ pc' = "checkpoint") =>
                  /\ accepted_json'[base_filename].exists
                  /\ accepted_json'[base_filename].data = accepted_results
                  /\ no_accepted_json'[base_filename].exists
                  /\ no_accepted_json'[base_filename].data = no_accepted_results
                  /\ UNCHANGED <<ckpt, accepted_results, no_accepted_results>>
            /\ \A k \in Keys :
                  ( /\ ckpt'[k] # ckpt[k]
                    /\ ckpt'[k].state = "ok"
                    /\ IsDetailUrl(ckpt'[k].last_url) ) =>
                      /\ pc = "checkpoint"
                      /\ k = base_filename
                      /\ ckpt'[k].last_url = q_url
                      /\ ckpt'[k].last_page = page_num
                      /\ accepted_json'[k].data = accepted_results'
                      /\ no_accepted_json'[k].data = no_accepted_results'
                      /\ FilesHold(k, ckpt[k].last_url, ckpt[k].last_page)'
                      /\ UNCHANGED <<accepted_json, no_accepted_json,
                                     accepted_results, no_accepted_results>>]_vars
    /\ [](runNo = 1 =>
            \A k \in Keys :
                (ckpt[k].state = "ok" /\ IsDetailUrl(ckpt[k].last_url)) =>
                    FilesHold(k, ckpt[k].last_url, ckpt[k].last_page))

\* C24 witness: the checkpoint has just been written for the second thread of
\* a run; it names that thread and the JSON files hold both collections, two
\* records in all.
C24_Witness ==
    /\ pc = "thread_loop"
    /\ link = 3
    /\ last_outcome = "ok"
    /\ Len(AllRecords) = 2
    /\ ckpt[base_filename].state = "ok"
    /\ ckpt[base_filename].last_url = q_urls[2]
    /\ accepted_json[base_filename].data = accepted_results
    /\ no_accepted_json[base_filename].data = no_accepted_results
    /\ FilesHold(base_filename, q_urls[2], page_num)

\* C25 (as claimed): when the first two attempts at a list page fail, blocked
\* or by an exception, the delay waited before attempt 3 is strictly greater
\* than the delay waited before attempt 2; and no delay is waited after the
\* third attempt.
C25_ProgressiveBackoff ==
    [][(pc = "list_nav" /\ pc' \in Running /\ last_outcome' # "ok") =>
          /\ attempt = 0 => backoff' > 0
          /\ attempt = 1 => backoff' > backoff
          /\ attempt = 2 => backoff' = 0]_vars

\* The number of operations in flight after the first n events of io_log.
InFlightAfter(n) ==
    Cardinality({k \in 1..n : io_log[k][1] = "begin"})
        - Cardinality({k \in 1..n : io_log[k][1] = "end"})

\* C26: the crawl has a single worker: at most one navigation, image download
\* or file write is in flight at any time, each is over before the next one
\* starts, and every image download of a thread is over before the thread's
\* flush and its checkpoint write begin, so that no image download overlaps a
\* checkpoint write.
C26_SingleWorker ==
    /\ \A n \in 1..Len(io_log) :
          /\ InFlightAfter(n) \in {0, 1}
          /\ io_log[n][1] = "end" =>
                n > 1 /\ io_log[n - 1] = <<"begin", io_log[n][2]>>
    /\ \A i, j \in 1..Len(io_log) :
          (i < j /\ io_log[i][2][1] \in {"flush", "checkpoint"})
              => io_log[j][2][1] \in {"flush", "checkpoint"}
    /\ pc \in {"flush", "checkpoint"} => InFlightAfter(Len(io_log)) = 0

\* C26 witness: a thread with an image in its question and one in its second
\* answer has been processed: navigation, the two downloads, the flush and
\* the checkpoint write, one after the other.
C26_Witness ==
    /\ pc = "thread_loop"
    /\ io_log = Awaited(<<"goto">>) \o Awaited(<<"image", 0, 0>>)
                  \o Awaited(<<"image", 2, 0>>) \o Awaited(<<"flush">>)
                  \o Awaited(<<"checkpoint">>)

\* C27: at every point of a run visited_count equals the number of records in
\* accepted_results and no_accepted_results together, and with max_questions
\* = N (N >= 0) it never exceeds N; a navigation attempt at a list or detail
\* page, failed or not, and a failed extraction leave it as it is.
C27_QuotaCounter ==
    /\ [](pc \in Running \cup {"returned"} =>
            /\ visited_count = Collected
            /\ max_questions.limited => visited_count <= max_questions.n)
    /\ [][( /\ pc \in Running /\ pc' \in Running
            /\ \/ pc \in {"list_nav", "detail_nav"}
               \/ pc = "extract" /\ last_outcome' = "raise" )
          => /\ visited_count' = visited_count
             /\ Collected' = Collected]_vars

\* C27 witness: a run with max_questions = 2 has returned with two records and
\* a counter of 2 after navigating to three detail pages, one of which failed.
C27_Witness ==
    /\ pc = "returned"
    /\ max_questions = Limit(2)
    /\ visited_count = 2
    /\ Collected = 2
    /\ Len(DetailNavigated) = 3
    /\ faults = 1
    /\ stop_all

\* C28: within a run the page index never goes back; every checkpoint write,
\* of whatever key, stores the page index of the list page the run is at, the
\* per-thread write with the URL of a thread found among the valid links of
\* that list page; so each write of a run stores an index at least as great as
\* the write before it, and the index in the topic's checkpoint file never
\* decreases in a first run or in a run with resume=true.
C28_CheckpointPageNeverDecreases ==
    [][(pc \in Running /\ pc' \in Running) =>
          /\ page_num' >= page_num
          /\ \A k \in Keys :
                (ckpt'[k] # ckpt[k] /\ ckpt'[k].state = "ok") =>
                    /\ k = base_filename
                    /\ ckpt'[k].last_page = page_num
                    /\ pc \in {"page_loop", "checkpoint"}
                    /\ pc = "page_loop" => ckpt'[k].last_url = ListUrl(page_num)
                    /\ pc = "checkpoint" =>
                          /\ ckpt'[k].last_url = q_url
                          /\ InSeq(q_url, ValidLinks(site[page_num]))
                          /\ InSeq(q_url, DetailUrlsOf(page_num))
          /\ LET k == generate_filename_from_url(topic_url)
             IN  (ckpt[k].state = "ok" /\ ckpt'[k].state = "ok"
                    /\ (runNo = 1 \/ resume))
                   => ckpt'[k].last_page >= ckpt[k].last_page]_vars

\* C28 witness: a first run has written the per-thread checkpoint of a thread
\* of list page 2 to the topic's checkpoint file, which held page 1 before.
C28_Witness ==
    /\ runNo = 1
    /\ pc = "thread_loop"
    /\ page_num = 2
    /\ last_outcome = "ok"
    /\ ListPagesNavigated = <<1, 2>>
    /\ Len(DetailUrlsOf(1)) > 0
    /\ base_filename = generate_filename_from_url(topic_url)
    /\ ckpt[base_filename].state = "ok"
    /\ ckpt[base_filename].last_page = 2
    /\ IsDetailUrl(ckpt[base_filename].last_url)

\* Whether the run is one with resume=true that found a checkpoint whose page
\* index is at least max_pages.
NothingLeftToDo ==
    /\ resume
    /\ ckpt_at_start.state = "ok"
    /\ ckpt_at_start.last_page >= max_pages

\* C29: a run with resume=true whose checkpoint holds a page index >=
\* max_pages navigates to no list page and to no detail page, changes neither
\* a checkpoint file nor a result file, and returns two empty collections.
C29_NothingLeftToDo ==
    /\ []((pc \in Running \cup {"returned"} /\ NothingLeftToDo) =>
            /\ navLog = <<>>
            /\ accepted_results = <<>>
            /\ no_accepted_results = <<>>
            /\ ckpt[generate_filename_from_url(topic_url)] = ckpt_at_start
            /\ pc \in {"page_loop", "closing", "returned"})
    /\ [][(pc \in Running /\ NothingLeftToDo) => UNCHANGED disk]_vars

\* C29 witness: a second run with resume=true and max_pages = 2 found a
\* checkpoint holding page 2 beside the result files of the first run and has
\* returned without a navigation, the files as they were.
C29_Witness ==
    /\ pc = "returned"
    /\ runNo = 2
    /\ NothingLeftToDo
    /\ max_pages = 2
    /\ ckpt_at_start.last_page = 2
    /\ navLog = <<>>
    /\ accepted_json[generate_filename_from_url(topic_url)].exists
    /\ accepted_json[generate_filename_from_url(topic_url)].data # <<>>
    /\ accepted_results = <<>>

====
